---------------------------- MODULE Spec2Model ----------------------------
(***************************************************************************)
(* College-Attendance-System: the student check-in flow of                 *)
(* frontend/src/app/dashboard/studentDashboard.tsx (camera dialog, frame   *)
(* capture, face-verification request) and the server-side Attendance      *)
(* Ledger contract the verification endpoint writes through; with them     *)
(* the geofence evaluator, the login flags and routes of the App, the      *)
(* admin's bulk attendance update, and the cameras of FaceCapture and of   *)
(* the registration form, each under a specification of its own.           *)
(*                                                                         *)
(* React semantics used throughout: an event handler (or the continuation  *)
(* of an await) runs to completion against the refs of the last committed  *)
(* render; the state updates it queued are then committed in one render,   *)
(* which mounts or unmounts the <video> element and so sets or clears      *)
(* videoRef.current.  Every action below is one handler plus that commit.  *)
(***************************************************************************)
EXTENDS Integers, FiniteSets, Sequences, TLC

\* ------------------------------------------------------------------ bounds
\* getUserMedia acquisitions, captured frames and verification requests a
\* behaviour may contain.
MaxStreams == 3
MaxFrames == 2
MaxReqs == 2

\* null: capturedImage = null, videoRef.current.srcObject = null
Null == 0

StreamIds == 1..MaxStreams

VARIABLES
    isChecking,      \* useState(false): a verification request is being awaited
    isVerified,      \* useState(false), then set from studentData.last_check_in
    isCameraOpen,    \* useState(false): the camera Dialog is open
    capturedImage,   \* useState(null): Null or the frame produced by capturePhoto
    videoMounted,    \* videoRef.current # null: the <video> element is rendered
    srcObject,       \* videoRef.current.srcObject: Null or a stream
    pendingGUM,      \* getUserMedia promises of openCamera not yet settled
    liveStreams,     \* acquired MediaStreams with a track that was not stopped
    nextStream,      \* next getUserMedia acquisition
    nextFrame,       \* next frame capturePhoto produces
    requests,        \* axios.post calls of handleAttendance in flight
    nextReq,         \* next verification request
    submitted,       \* history: frames handed to the verification endpoint
    lastToast,       \* title of the last toast shown
    lastOp,          \* history: the handler that ran last, and its outcome
    ledger,          \* Attendance Ledger: the persisted AttendanceRecords
    calls,           \* recordVerifiedCheckIn calls, one per verified submission
    clock,           \* server time, the source of recordedAt
    position,        \* what the geolocation provider holds for the device
    isWithinCollegeRadius,  \* useState(false): the geofence result
    served,          \* outcome the verification endpoint produced, per request
    wrote,           \* history: requests whose handling wrote to the ledger
    fenceEval,       \* the last call of getDistanceFromLatLonInMeters
    isLoggedIn,      \* Home: useState(false)
    isLoggedInAdmin, \* Home: useState(false)
    storedIsLoggedIn,  \* localStorage "isLoggedIn"
    authPending,     \* checkAuth's GET /api/user of this page load is in flight
    path,            \* the location the router renders
    authToast,       \* title of the last toast of handleLogout
    loggedOut,       \* history: handleLogout succeeded, no login or
                     \* successful checkAuth since
    serverStatus,    \* the status the server stores, per attendance record
    attendanceData,  \* AttendancePage: the status held locally, per record
    batches,         \* the calls of handleBulkUpdate
    nextBatch,       \* next call of handleBulkUpdate
    faceMounted,     \* FaceCapture is mounted: its videoRef.current # null
    mediaStream,     \* FaceCapture: useState(null)
    faceSrcObject,   \* FaceCapture: videoRef.current.srcObject
    facePending,     \* FaceCapture: getUserMedia promises not yet settled
    faceLive,        \* FaceCapture: acquired streams with a live track
    faceNext,        \* FaceCapture: next getUserMedia acquisition
    faceLastOp,      \* history: the FaceCapture step that ran last
    faceCaptured,    \* FaceCapture called onCapture(imageData)
    faceCancelled,   \* FaceCapture called onCancel()
    regStream,       \* RegistrationForm: stream, useState(null)
    showCamera,      \* RegistrationForm: useState(false)
    faceImage,       \* RegistrationForm: "none" for null, or "image"
    regSrcObject,    \* RegistrationForm: videoRef.current.srcObject
    regError,        \* RegistrationForm: error # ""
    successMessage,  \* RegistrationForm: successMessage # ""
    regPending,      \* RegistrationForm: getUserMedia promises not yet settled
    regLive,         \* RegistrationForm: acquired streams with a live track
    regNext          \* RegistrationForm: next getUserMedia acquisition

dashVars == <<isChecking, isVerified, isCameraOpen, capturedImage, videoMounted,
              srcObject, pendingGUM, liveStreams, nextStream, nextFrame,
              requests, nextReq, submitted, lastToast, lastOp>>

ledgerVars == <<ledger, calls, clock>>

geoVars == <<position, isWithinCollegeRadius>>

serverVars == <<served, wrote>>

evalVars == <<fenceEval>>

authVars == <<isLoggedIn, isLoggedInAdmin, storedIsLoggedIn, authPending,
              path, authToast, loggedOut>>

bulkVars == <<serverStatus, attendanceData, batches, nextBatch>>

faceVars == <<faceMounted, mediaStream, faceSrcObject, facePending, faceLive,
              faceNext, faceLastOp, faceCaptured, faceCancelled>>

regVars == <<regStream, showCamera, faceImage, regSrcObject, regError,
             successMessage, regPending, regLive, regNext>>

\* The components outside the check-in flow.
auxVars == <<evalVars, authVars, bulkVars, faceVars, regVars>>

\* ------------------------------------------------------- render and camera

\* The <video> element is rendered inside the open Dialog while no frame is
\* held; otherwise the <img> of the captured frame is rendered in its place.
VideoRendered(open, img) == open /\ img = Null

\* videoRef.current.srcObject after the commit of a render: the element keeps
\* its stream only if it stayed mounted; a newly mounted element has none.
SrcAfterCommit(wasMounted, nowMounted, src) ==
    IF wasMounted /\ nowMounted THEN src ELSE Null

\* closeCamera: the streams still live after it ran against the current ref.
CloseCameraLive(mounted, src, live) ==
    IF mounted /\ src # Null THEN live \ {src} ELSE live

\* Mutant: closeCamera stops the tracks but keeps the reference.
CloseCameraSrc_Kept(mounted, src) == src

\* closeCamera: videoRef.current.srcObject after it ran.
CloseCameraSrc(mounted, src) ==
    IF mounted /\ src # Null THEN Null ELSE src

\* The commit of the render that follows a handler.
Commit(open, img, src) ==
    /\ videoMounted' = VideoRendered(open, img)
    /\ srcObject' = SrcAfterCommit(videoMounted, VideoRendered(open, img), src)

\* openCamera up to its await: closeCamera(), setIsCameraOpen(true) and the
\* getUserMedia call, with the frame the same handler leaves in capturedImage.
OpenCamera(img) ==
    /\ nextStream <= MaxStreams
    /\ liveStreams' = CloseCameraLive(videoMounted, srcObject, liveStreams)
    /\ isCameraOpen' = TRUE
    /\ pendingGUM' = pendingGUM \cup {nextStream}
    /\ nextStream' = nextStream + 1
    /\ Commit(TRUE, img, CloseCameraSrc(videoMounted, srcObject))

\* --------------------------------------------------------------- geofence

\* const allowedRadius = 100, in metres.
allowedRadius == 100

\* The device's position as the geolocation provider would report it: denied
\* or unavailable, or known, at a distance from the college (the value of
\* getDistanceFromLatLonInMeters) inside, on or outside the radius.
Positions ==
    {[known |-> FALSE, distance |-> 0]} \cup
    {[known |-> TRUE, distance |-> d] :
        d \in {0, allowedRadius, allowedRadius + 1}}

\* useState(false); the effect that asked navigator.geolocation for the
\* position and called setIsWithinCollegeRadius is commented out, so no
\* handler of the dashboard writes the flag.
GeoInit ==
    /\ position \in Positions
    /\ isWithinCollegeRadius = FALSE

\* Mutant: the guard the button's comment marks as PRODUCTION.
StartEnabled_Production(checking, verified, within) ==
    ~(checking \/ verified \/ ~within)

\* The "Take Attendance" button's disabled={false}.
StartEnabled(checking, verified, within) == TRUE

\* deg is a multiple of 90 here, where Math.cos(deg2rad(deg)) is -1, 0 or 1.
Cos90(deg) ==
    CASE deg % 360 = 0 -> 1
      [] deg % 360 = 180 -> -1
      [] OTHER -> 0

\* R * Math.PI / 2 with R = 6371e3, to the metre: a quarter of a great circle.
MetresPerQuarterTurn == 10007543

\* 2 * a of getDistanceFromLatLonInMeters, by 2 * sin(x / 2)^2 = 1 - cos(x).
TwiceA(lat1, lon1, lat2, lon2) ==
    (1 - Cos90(lat2 - lat1))
      + Cos90(lat1) * Cos90(lat2) * (1 - Cos90(lon2 - lon1))

\* getDistanceFromLatLonInMeters: c = 2 * atan2(sqrt(a), sqrt(1 - a)) is 0,
\* PI / 2 or PI for a = 0, 1/2 or 1, and the result is R * c.  No branch of
\* the function looks at the range of its arguments.
getDistanceFromLatLonInMeters(lat1, lon1, lat2, lon2) ==
    [kind |-> "distance",
     meters |-> MetresPerQuarterTurn * TwiceA(lat1, lon1, lat2, lon2)]

\* Device coordinates the evaluator is called with, in degrees: in range and
\* out of range (|latitude| > 90, |longitude| > 180).
DeviceLatitudes == {-180, -90, 0, 90, 180}
DeviceLongitudes == {-270, -180, -90, 0, 90, 180, 270}

\* Fence centres, all well-formed.
CentreLatitudes == {0, 90}
CentreLongitudes == {0, 90}

NoEval == [lat |-> 0, lon |-> 0, centreLat |-> 0, centreLon |-> 0,
           result |-> [kind |-> "none", meters |-> 0]]

EvalInit == fenceEval = NoEval

\* One evaluation of the device position against a fence centre.
EvaluateFence(lat, lon, cLat, cLon) ==
    fenceEval' = [lat |-> lat, lon |-> lon, centreLat |-> cLat,
                  centreLon |-> cLon,
                  result |-> getDistanceFromLatLonInMeters(lat, lon, cLat, cLon)]

EvalNext ==
    \E lat \in DeviceLatitudes, lon \in DeviceLongitudes,
       cLat \in CentreLatitudes, cLon \in CentreLongitudes :
        EvaluateFence(lat, lon, cLat, cLon)

\* ------------------------------------------------------ login and routes
\* Home (App): the login flags, their copy in localStorage and the routes.

AdminPaths == {"/admin-dashboard", "/admin-dashboard/students",
               "/admin-dashboard/classes", "/admin-dashboard/attendance",
               "/admin-dashboard/reports"}

Paths == {"/", "/login", "/login/admin", "/dashboard"} \cup AdminPaths

\* What <Routes> renders at a location.  The inline PrivateRoute wraps
\* /dashboard only; the admin routes are plain <Route> elements.
RouteElement(p, loggedIn) ==
    CASE p = "/dashboard" ->
            IF loggedIn THEN "StudentDashboard" ELSE "Navigate"
      [] p \in AdminPaths -> "AdminPage"
      [] p = "/login" -> "LoginForm"
      [] p = "/login/admin" -> "AdminLoginForm"
      [] OTHER -> "LandingPage"

\* JSON.parse(localStorage.getItem("isLoggedIn") || "false")
ParseStored(item) == item = "true"

\* JSON.stringify(isLoggedIn)
Stringify(flag) == IF flag THEN "true" ELSE "false"

\* A page load at location p: the state is constructed, the first effect
\* sets isLoggedIn from localStorage, the second writes the flag back after
\* the render that follows, and checkAuth is sent.
Load(p) ==
    /\ isLoggedIn' = ParseStored(storedIsLoggedIn)
    /\ isLoggedInAdmin' = FALSE
    /\ storedIsLoggedIn' = Stringify(ParseStored(storedIsLoggedIn))
    /\ authPending' = TRUE
    /\ path' = p

\* The first load, in a browser whose localStorage is empty.
AuthInit ==
    /\ isLoggedIn = FALSE
    /\ isLoggedInAdmin = FALSE
    /\ storedIsLoggedIn = "false"
    /\ authPending = TRUE
    /\ path = "/"
    /\ authToast = "none"
    /\ loggedOut = FALSE

\* The user enters a URL or reloads the page.
Reload(p) ==
    /\ Load(p)
    /\ UNCHANGED <<authToast, loggedOut>>

\* A link, navigate() or the history moves the router to p.
ClientNavigate(p) ==
    /\ path # p
    /\ path' = p
    /\ UNCHANGED <<isLoggedIn, isLoggedInAdmin, storedIsLoggedIn, authPending,
                   authToast, loggedOut>>

\* checkAuth: GET /api/user answered 200.
CheckAuthOk ==
    /\ authPending
    /\ authPending' = FALSE
    /\ isLoggedIn' = TRUE
    /\ storedIsLoggedIn' = Stringify(TRUE)
    /\ loggedOut' = FALSE
    /\ UNCHANGED <<isLoggedInAdmin, path, authToast>>

\* checkAuth's catch: the error is logged and nothing is set.
CheckAuthFail ==
    /\ authPending
    /\ authPending' = FALSE
    /\ UNCHANGED <<isLoggedIn, isLoggedInAdmin, storedIsLoggedIn, path,
                   authToast, loggedOut>>

\* LoginForm.handleLogin on a 200 response.
LoginOk ==
    /\ RouteElement(path, isLoggedIn) = "LoginForm"
    /\ isLoggedIn' = TRUE
    /\ storedIsLoggedIn' = Stringify(TRUE)
    /\ path' = "/dashboard"
    /\ loggedOut' = FALSE
    /\ UNCHANGED <<isLoggedInAdmin, authPending, authToast>>

\* AdminLoginForm.handleLogin on a 200 response.
AdminLoginOk ==
    /\ RouteElement(path, isLoggedIn) = "AdminLoginForm"
    /\ isLoggedInAdmin' = TRUE
    /\ path' = "/admin-dashboard"
    /\ UNCHANGED <<isLoggedIn, storedIsLoggedIn, authPending, authToast,
                   loggedOut>>

\* StudentDashboard.handleLogout, logout() resolved: the toast, then
\* window.location.href = "/login" loads the application again.  Neither
\* logout() nor the handler touches localStorage.
HandleLogoutOk ==
    /\ RouteElement(path, isLoggedIn) = "StudentDashboard"
    /\ authToast' = "Logged Out"
    /\ Load("/login")
    /\ loggedOut' = TRUE

\* handleLogout's catch: logout() threw.
HandleLogoutFail ==
    /\ RouteElement(path, isLoggedIn) = "StudentDashboard"
    /\ authToast' = "Logout Error"
    /\ UNCHANGED <<isLoggedIn, isLoggedInAdmin, storedIsLoggedIn, authPending,
                   path, loggedOut>>

\* Sidebar.handleLogout of the admin layout: navigate("/login/admin").
SidebarLogout ==
    /\ RouteElement(path, isLoggedIn) = "AdminPage"
    /\ path' = "/login/admin"
    /\ UNCHANGED <<isLoggedIn, isLoggedInAdmin, storedIsLoggedIn, authPending,
                   authToast, loggedOut>>

AuthNext ==
    \/ \E p \in Paths : Reload(p)
    \/ \E p \in Paths : ClientNavigate(p)
    \/ CheckAuthOk
    \/ CheckAuthFail
    \/ LoginOk
    \/ AdminLoginOk
    \/ HandleLogoutOk
    \/ HandleLogoutFail
    \/ SidebarLogout

\* ------------------------------------------------- bulk attendance update
\* AttendancePage.handleBulkUpdate over bulkUpdateAttendance: one PUT
\* /attendance/<id>/ per record, awaited together by Promise.all.

\* Attendance records on the page, and calls of handleBulkUpdate.
MaxRecords == 2
MaxBatches == 1

RecordIds == 1..MaxRecords
BatchIds == 1..MaxBatches

Statuses == {"Present", "Absent", "Late"}

IdleBatch == [phase |-> "idle", status |-> "none", ids |-> {},
              upd |-> [id \in RecordIds |-> "none"]]

\* fetchData: the page shows what the server stores.
BulkInit ==
    /\ serverStatus \in [RecordIds -> {"Absent", "Present"}]
    /\ attendanceData = serverStatus
    /\ batches = [b \in BatchIds |-> IdleBatch]
    /\ nextBatch = 1

\* Mutant: the updates are issued one after the other, the first by the call.
IssuedUpdates_OneAtATime(ids) ==
    [id \in RecordIds |->
        IF id \in ids /\ \A other \in ids : id <= other
        THEN "sent" ELSE "none"]

\* bulkUpdateAttendance: ids.map((id) => updateAttendanceStatus(id, status))
\* calls api.put for every id before anything is awaited.
IssuedUpdates(ids) ==
    [id \in RecordIds |-> IF id \in ids THEN "sent" ELSE "none"]

\* handleBulkUpdate(status) up to its await; ids are the records the
\* page's filter lets through.
HandleBulkUpdate(ids, status) ==
    /\ nextBatch <= MaxBatches
    /\ batches' = [batches EXCEPT ![nextBatch] =
                      [phase |-> "awaiting", status |-> status, ids |-> ids,
                       upd |-> IssuedUpdates(ids)]]
    /\ nextBatch' = nextBatch + 1
    /\ UNCHANGED <<serverStatus, attendanceData>>

\* The server applies one update and its promise resolves.
UpdateOk(b, id) ==
    /\ batches[b].upd[id] = "sent"
    /\ batches' = [batches EXCEPT ![b].upd[id] = "ok"]
    /\ serverStatus' = [serverStatus EXCEPT ![id] = batches[b].status]
    /\ UNCHANGED <<attendanceData, nextBatch>>

\* One update fails and its promise rejects.
UpdateFail(b, id) ==
    /\ batches[b].upd[id] = "sent"
    /\ batches' = [batches EXCEPT ![b].upd[id] = "failed"]
    /\ UNCHANGED <<serverStatus, attendanceData, nextBatch>>

\* Promise.all resolved: every update did.  setAttendanceData replaces each
\* record found in updatedRecords, which carry the status that was sent.
BulkResolve(b) ==
    /\ batches[b].phase = "awaiting"
    /\ \A id \in batches[b].ids : batches[b].upd[id] = "ok"
    /\ attendanceData' =
          [id \in RecordIds |->
              IF id \in batches[b].ids THEN batches[b].status
              ELSE attendanceData[id]]
    /\ batches' = [batches EXCEPT ![b].phase = "resolved"]
    /\ UNCHANGED <<serverStatus, nextBatch>>

\* Promise.all rejected with the first update that failed: the catch logs
\* the error.  Updates still in flight are not cancelled.
BulkReject(b) ==
    /\ batches[b].phase = "awaiting"
    /\ \E id \in batches[b].ids : batches[b].upd[id] = "failed"
    /\ batches' = [batches EXCEPT ![b].phase = "rejected"]
    /\ UNCHANGED <<serverStatus, attendanceData, nextBatch>>

BulkNext ==
    \/ \E ids \in SUBSET RecordIds, status \in Statuses :
          HandleBulkUpdate(ids, status)
    \/ \E b \in BatchIds, id \in RecordIds : UpdateOk(b, id)
    \/ \E b \in BatchIds, id \in RecordIds : UpdateFail(b, id)
    \/ \E b \in BatchIds : BulkResolve(b)
    \/ \E b \in BatchIds : BulkReject(b)

\* ------------------------------------------------------------ FaceCapture
\* One mounted FaceCapture.  Its effect depends on [mediaStream]: it runs on
\* mount and again after every setMediaStream, each run calls getUserMedia,
\* and the cleanup of a run stops the mediaStream of the render it was
\* created in.

\* getUserMedia acquisitions of one FaceCapture a behaviour may contain.
MaxAcquisitions == 4

AcquisitionIds == 1..MaxAcquisitions

\* The streams left live when the tracks of stream s are stopped, if (s).
StopTracks(s, live) == IF s # Null THEN live \ {s} ELSE live

\* Mounted, the first run of the effect has called getUserMedia.
FaceInit ==
    /\ faceMounted = TRUE
    /\ mediaStream = Null
    /\ faceSrcObject = Null
    /\ facePending = {1}
    /\ faceLive = {}
    /\ faceNext = 2
    /\ faceLastOp = "mount"
    /\ faceCaptured = FALSE
    /\ faceCancelled = FALSE

\* setupCamera after its await.  With the element mounted the stream is
\* attached and stored; the render that follows runs the cleanup of the last
\* effect, which stops the stream stored before, and the effect again, which
\* calls getUserMedia.  With the element gone the stream is dropped as it is.
FaceGumResolve(s) ==
    /\ s \in facePending
    /\ IF faceMounted
       THEN /\ faceNext <= MaxAcquisitions
            /\ faceSrcObject' = s
            /\ mediaStream' = s
            /\ faceLive' = StopTracks(mediaStream, faceLive \cup {s})
            /\ facePending' = (facePending \ {s}) \cup {faceNext}
            /\ faceNext' = faceNext + 1
       ELSE /\ faceLive' = faceLive \cup {s}
            /\ facePending' = facePending \ {s}
            /\ UNCHANGED <<faceSrcObject, mediaStream, faceNext>>
    /\ faceLastOp' = "resolve"
    /\ UNCHANGED <<faceMounted, faceCaptured, faceCancelled>>

\* setupCamera's catch: the error is logged.
FaceGumReject(s) ==
    /\ s \in facePending
    /\ facePending' = facePending \ {s}
    /\ faceLastOp' = "reject"
    /\ UNCHANGED <<faceMounted, mediaStream, faceSrcObject, faceLive, faceNext,
                   faceCaptured, faceCancelled>>

\* handleCapture: onCapture(imageData), then the stored stream is stopped.
FaceHandleCapture ==
    /\ faceMounted
    /\ faceLive' = StopTracks(mediaStream, faceLive)
    /\ faceLastOp' = "capture"
    /\ faceCaptured' = TRUE
    /\ UNCHANGED <<faceMounted, mediaStream, faceSrcObject, facePending,
                   faceNext, faceCancelled>>

\* handleCancel: the stored stream is stopped, then onCancel().
FaceHandleCancel ==
    /\ faceMounted
    /\ faceLive' = StopTracks(mediaStream, faceLive)
    /\ faceLastOp' = "cancel"
    /\ faceCancelled' = TRUE
    /\ UNCHANGED <<faceMounted, mediaStream, faceSrcObject, facePending,
                   faceNext, faceCaptured>>

\* The parent stops rendering FaceCapture: the cleanup of the last effect
\* stops the stored stream.
FaceUnmount ==
    /\ faceMounted
    /\ faceMounted' = FALSE
    /\ faceSrcObject' = Null
    /\ faceLive' = StopTracks(mediaStream, faceLive)
    /\ faceLastOp' = "unmount"
    /\ UNCHANGED <<mediaStream, facePending, faceNext, faceCaptured,
                   faceCancelled>>

FaceNext ==
    \/ \E s \in AcquisitionIds : FaceGumResolve(s)
    \/ \E s \in AcquisitionIds : FaceGumReject(s)
    \/ FaceHandleCapture
    \/ FaceHandleCancel
    \/ FaceUnmount

\* ------------------------------------------------------- RegistrationForm
\* The camera of the registration form: the <video> is rendered while
\* showCamera, and stopCamera stops the stream held in the state.

RegInit ==
    /\ regStream = Null
    /\ showCamera = FALSE
    /\ faceImage = "none"
    /\ regSrcObject = Null
    /\ regError = FALSE
    /\ successMessage = FALSE
    /\ regPending = {}
    /\ regLive = {}
    /\ regNext = 1

\* startCamera up to its await.
StartCamera ==
    /\ regNext <= MaxStreams
    /\ regPending' = regPending \cup {regNext}
    /\ regNext' = regNext + 1

\* stopCamera: if (stream) its tracks are stopped and setStream(null).
StopCamera ==
    /\ regLive' = StopTracks(regStream, regLive)
    /\ regStream' = Null

\* The "Start Camera" button, rendered with no preview and no image.
StartCameraClick ==
    /\ ~showCamera /\ faceImage = "none"
    /\ showCamera' = TRUE
    /\ StartCamera
    /\ UNCHANGED <<regStream, faceImage, regSrcObject, regError,
                   successMessage, regLive>>

\* The "Retake Photo" button, rendered with no preview under the image.
RetakeClick ==
    /\ ~showCamera /\ faceImage # "none"
    /\ faceImage' = "none"
    /\ showCamera' = TRUE
    /\ StartCamera
    /\ UNCHANGED <<regStream, regSrcObject, regError, successMessage, regLive>>

\* startCamera after its await: setStream, the stream is attached if the
\* <video> is there, setError("").
RegGumResolve(s) ==
    /\ s \in regPending
    /\ regPending' = regPending \ {s}
    /\ regLive' = regLive \cup {s}
    /\ regStream' = s
    /\ regSrcObject' = IF showCamera THEN s ELSE regSrcObject
    /\ regError' = FALSE
    /\ UNCHANGED <<showCamera, faceImage, successMessage, regNext>>

\* startCamera's catch.
RegGumReject(s) ==
    /\ s \in regPending
    /\ regPending' = regPending \ {s}
    /\ regError' = TRUE
    /\ UNCHANGED <<regStream, showCamera, faceImage, regSrcObject,
                   successMessage, regLive, regNext>>

\* The "Cancel" button of the preview: stopCamera(), setShowCamera(false).
CancelClick ==
    /\ showCamera
    /\ StopCamera
    /\ showCamera' = FALSE
    /\ regSrcObject' = Null
    /\ UNCHANGED <<faceImage, regError, successMessage, regPending, regNext>>

\* capturePhoto, with the <video> and the <canvas> rendered.
RegCapturePhoto ==
    /\ showCamera
    /\ faceImage' = "image"
    /\ StopCamera
    /\ showCamera' = FALSE
    /\ regSrcObject' = Null
    /\ successMessage' = TRUE
    /\ UNCHANGED <<regError, regPending, regNext>>

\* setTimeout(() => setSuccessMessage(""), 3000)
SuccessTimeout ==
    /\ successMessage
    /\ successMessage' = FALSE
    /\ UNCHANGED <<regStream, showCamera, faceImage, regSrcObject, regError,
                   regPending, regLive, regNext>>

RegNext ==
    \/ StartCameraClick
    \/ RetakeClick
    \/ \E s \in StreamIds : RegGumResolve(s)
    \/ \E s \in StreamIds : RegGumReject(s)
    \/ CancelClick
    \/ RegCapturePhoto
    \/ SuccessTimeout

\* --------------------------------------------------------------- the flow

DashInit ==
    /\ isChecking = FALSE
    /\ isVerified \in BOOLEAN
    /\ isCameraOpen = FALSE
    /\ capturedImage = Null
    /\ videoMounted = FALSE
    /\ srcObject = Null
    /\ pendingGUM = {}
    /\ liveStreams = {}
    /\ nextStream = 1
    /\ nextFrame = 1
    /\ requests = {}
    /\ nextReq = 1
    /\ submitted = {}
    /\ lastToast = "none"
    /\ lastOp = [op |-> "init", out |-> "none"]

\* The "Take Attendance" button, disabled={false}: onClick={openCamera}.
OpenCameraClick ==
    /\ StartEnabled(isChecking, isVerified, isWithinCollegeRadius)
    /\ OpenCamera(capturedImage)
    /\ lastOp' = [op |-> "openCamera", out |-> "none"]
    /\ UNCHANGED <<isChecking, isVerified, capturedImage, nextFrame, requests,
                   nextReq, submitted, lastToast>>

\* openCamera after its await: getUserMedia resolved with stream s.
GumResolve(s) ==
    /\ s \in pendingGUM
    /\ pendingGUM' = pendingGUM \ {s}
    /\ liveStreams' = liveStreams \cup {s}
    /\ srcObject' = IF videoMounted THEN s ELSE srcObject
    /\ lastOp' = [op |-> "gumResolve", out |-> "none"]
    /\ UNCHANGED <<isChecking, isVerified, isCameraOpen, capturedImage,
                   videoMounted, nextStream, nextFrame, requests, nextReq,
                   submitted, lastToast>>

\* openCamera's catch: getUserMedia rejected.
GumReject(s) ==
    /\ s \in pendingGUM
    /\ pendingGUM' = pendingGUM \ {s}
    /\ lastToast' = "Camera Error"
    /\ liveStreams' = CloseCameraLive(videoMounted, srcObject, liveStreams)
    /\ srcObject' = CloseCameraSrc(videoMounted, srcObject)
    /\ lastOp' = [op |-> "gumReject",
                   out |-> IF videoMounted /\ srcObject # Null
                           THEN "stopped" ELSE "none"]
    /\ UNCHANGED <<isChecking, isVerified, isCameraOpen, capturedImage,
                   videoMounted, nextStream, nextFrame, requests, nextReq,
                   submitted>>

\* The "Capture" button, rendered while no frame is held.  The canvas takes
\* videoWidth x videoHeight, which is 0 x 0 while no stream is attached, and
\* toDataURL of an empty canvas is the non-empty string "data:,": a frame.
CapturePhoto ==
    /\ isCameraOpen /\ capturedImage = Null
    /\ nextFrame <= MaxFrames
    /\ IF videoMounted
       THEN /\ capturedImage' = nextFrame
            /\ nextFrame' = nextFrame + 1
            /\ liveStreams' = CloseCameraLive(videoMounted, srcObject, liveStreams)
            /\ Commit(isCameraOpen, nextFrame, CloseCameraSrc(videoMounted, srcObject))
       ELSE UNCHANGED <<capturedImage, nextFrame, liveStreams, videoMounted, srcObject>>
    /\ lastOp' = [op |-> "capturePhoto",
                   out |-> IF srcObject = Null THEN "zeroDims" ELSE "frame"]
    /\ UNCHANGED <<isChecking, isVerified, isCameraOpen, pendingGUM, nextStream,
                   requests, nextReq, submitted, lastToast>>

\* The "Retake" button, rendered while a frame is held.
RetakePhoto ==
    /\ isCameraOpen /\ capturedImage # Null
    /\ capturedImage' = Null
    /\ OpenCamera(Null)
    /\ lastOp' = [op |-> "retakePhoto", out |-> "none"]
    /\ UNCHANGED <<isChecking, isVerified, nextFrame, requests, nextReq,
                   submitted, lastToast>>

\* Mutant: the submit button is never disabled.
SubmitEnabled_Always(checking) == TRUE

\* Whether the "Submit for Verification" button can be clicked.
SubmitEnabled(checking) == ~checking

\* Mutant: the submit button is rendered without a frame and the handler
\* does not test capturedImage.
HandleAttendance_Unguarded ==
    /\ isCameraOpen
    /\ SubmitEnabled(isChecking)
    /\ nextReq <= MaxReqs
    /\ isChecking' = TRUE
    /\ requests' = requests \cup
           {[id |-> nextReq, frame |-> capturedImage, cancelled |-> FALSE]}
    /\ nextReq' = nextReq + 1
    /\ submitted' = submitted \cup {capturedImage}
    /\ lastOp' = [op |-> "handleAttendance", out |-> "none"]
    /\ UNCHANGED <<isVerified, isCameraOpen, capturedImage, videoMounted,
                   srcObject, pendingGUM, liveStreams, nextStream, nextFrame,
                   lastToast>>

\* handleAttendance up to its await.
HandleAttendance ==
    /\ isCameraOpen /\ capturedImage # Null
    /\ SubmitEnabled(isChecking)
    /\ nextReq <= MaxReqs
    /\ IF capturedImage = Null
       THEN /\ lastToast' = "No Image Captured"
            /\ isChecking' = FALSE
            /\ UNCHANGED <<requests, nextReq, submitted>>
       ELSE /\ isChecking' = TRUE
            /\ requests' = requests \cup
                   {[id |-> nextReq, frame |-> capturedImage, cancelled |-> FALSE]}
            /\ nextReq' = nextReq + 1
            /\ submitted' = submitted \cup {capturedImage}
            /\ UNCHANGED lastToast
    /\ lastOp' = [op |-> "handleAttendance", out |-> "none"]
    /\ UNCHANGED <<isVerified, isCameraOpen, capturedImage, videoMounted,
                   srcObject, pendingGUM, liveStreams, nextStream, nextFrame>>

\* Mutant: the frame is left in capturedImage when the request settles.
FrameAfterSettle_Kept(img) == img

\* setCapturedImage(null) of handleAttendance's try, catch and finally.
FrameAfterSettle(img) == Null

\* Toast title of a response: response.data.verified ? ... : ...
ResponseToast(verified) ==
    IF verified THEN "Attendance Verified" ELSE "Attendance Not Verified"

\* Mutant: the catch block reports a failed request as a negative match.
ErrorToast_AsRejected == "Attendance Not Verified"

\* Toast title of handleAttendance's catch block.
ErrorToast == "Attendance Error"

\* handleAttendance after its await, try and finally: the response arrived.
VerifyResolve(r, verified) ==
    /\ r \in requests
    /\ requests' = requests \ {r}
    /\ isVerified' = verified
    /\ liveStreams' = CloseCameraLive(videoMounted, srcObject, liveStreams)
    /\ isCameraOpen' = FALSE
    /\ capturedImage' = FrameAfterSettle(capturedImage)
    /\ lastToast' = ResponseToast(verified)
    /\ isChecking' = FALSE
    /\ Commit(FALSE, FrameAfterSettle(capturedImage),
              CloseCameraSrc(videoMounted, srcObject))
    /\ lastOp' = [op |-> "verifyResolve",
                   out |-> IF verified THEN "verified" ELSE "rejected"]
    /\ UNCHANGED <<pendingGUM, nextStream, nextFrame, nextReq, submitted>>

\* handleAttendance after its await, catch and finally: the request failed.
VerifyReject(r) ==
    /\ r \in requests
    /\ requests' = requests \ {r}
    /\ liveStreams' = CloseCameraLive(videoMounted, srcObject, liveStreams)
    /\ isCameraOpen' = FALSE
    /\ capturedImage' = FrameAfterSettle(capturedImage)
    /\ lastToast' = ErrorToast
    /\ isChecking' = FALSE
    /\ Commit(FALSE, FrameAfterSettle(capturedImage),
              CloseCameraSrc(videoMounted, srcObject))
    /\ lastOp' = [op |-> "verifyReject", out |-> "error"]
    /\ UNCHANGED <<isVerified, pendingGUM, nextStream, nextFrame, nextReq,
                   submitted>>

\* Dismissing the Dialog (Escape, overlay click, close button):
\* onOpenChange(false) is setIsCameraOpen(false) and nothing else.
DismissDialog ==
    /\ isCameraOpen
    /\ isCameraOpen' = FALSE
    /\ requests' = {[r EXCEPT !.cancelled = TRUE] : r \in requests}
    /\ Commit(FALSE, capturedImage, srcObject)
    /\ lastOp' = [op |-> "dismiss", out |-> "none"]
    /\ UNCHANGED <<isChecking, isVerified, capturedImage, pendingGUM,
                   liveStreams, nextStream, nextFrame, nextReq, submitted,
                   lastToast>>

\* The handlers that do not depend on the verification endpoint.
DashLocalNext ==
    \/ OpenCameraClick
    \/ \E s \in StreamIds : GumResolve(s)
    \/ \E s \in StreamIds : GumReject(s)
    \/ CapturePhoto
    \/ RetakePhoto
    \/ HandleAttendance
    \/ DismissDialog

DashNext ==
    \/ OpenCameraClick
    \/ \E s \in StreamIds : GumResolve(s)
    \/ \E s \in StreamIds : GumReject(s)
    \/ CapturePhoto
    \/ RetakePhoto
    \/ HandleAttendance
    \/ \E r \in requests, v \in BOOLEAN : VerifyResolve(r, v)
    \/ \E r \in requests : VerifyReject(r)
    \/ DismissDialog


\* ---------------------------------------------------- Attendance Ledger
\* recordVerifiedCheckIn(studentId, date), the server-side write path behind
\* /api/face-verification (spec 4.5 and 5): an idempotent upsert keyed on
\* (studentId, date), a lookup followed by an insert that the unique key
\* serializes.  Several verified submissions may be inside it at once.

\* Concurrent recordVerifiedCheckIn calls a behaviour may contain.
MaxCalls == 3

Students == {"S1", "S2"}
Dates == {"2024-05-01", "2024-05-02"}
CallIds == 1..MaxCalls

NoRecord == [studentId |-> "none", date |-> "none", status |-> "none",
             recordedAt |-> 0, error |-> FALSE]

IdleCall == [pc |-> "idle", studentId |-> "none", date |-> "none",
             sawAbsent |-> FALSE, result |-> NoRecord]

\* The AttendanceRecords persisted for (studentId, date).
RecordsFor(rows, sid, d) == {r \in rows : r.studentId = sid /\ r.date = d}

\* AttendanceRecord created by a verified check-in at server time now.
NewRecord(sid, d, now) ==
    [studentId |-> sid, date |-> d, status |-> "Present", recordedAt |-> now,
     error |-> FALSE]

\* Mutant: an upsert that refreshes the row it finds.
OnConflict_Touch(existing, now) == [existing EXCEPT !.recordedAt = now]

\* "If a record already exists for (studentId, date), return it unchanged".
OnConflict(existing, now) == existing

\* Mutant: a blind insert, no unique key.
InsertUnique_Blind(rows, row) == rows \cup {row}

\* The insert under the unique key on (studentId, date): it adds the row only
\* if the key is still absent.
InsertUnique(rows, row) ==
    IF RecordsFor(rows, row.studentId, row.date) = {} THEN rows \cup {row} ELSE rows

LedgerInit ==
    /\ ledger = {}
    /\ calls = [c \in CallIds |-> IdleCall]
    /\ clock = 1

\* A verified submission for (sid, d) reaches the ledger.
LedgerCall(c, sid, d) ==
    /\ calls[c].pc = "idle"
    /\ calls' = [calls EXCEPT ![c] = [IdleCall EXCEPT !.pc = "lookup",
                                         !.studentId = sid, !.date = d]]
    /\ UNCHANGED <<ledger, clock>>

\* The upsert's lookup: an existing record is returned as it is.
LedgerLookup(c) ==
    /\ calls[c].pc = "lookup"
    /\ LET found == RecordsFor(ledger, calls[c].studentId, calls[c].date)
       IN IF found = {}
          THEN /\ calls' = [calls EXCEPT ![c].pc = "write", ![c].sawAbsent = TRUE]
               /\ UNCHANGED <<ledger, clock>>
          ELSE \E e \in found :
                 /\ ledger' = (ledger \ {e}) \cup {OnConflict(e, clock)}
                 /\ calls' = [calls EXCEPT ![c].pc = "done",
                                           ![c].result = OnConflict(e, clock)]
                 /\ clock' = clock + 1

\* The upsert's write: the insert under the unique key either adds the
\* caller's row, or hits the key another call wrote since the lookup and
\* returns that row instead of raising.
LedgerWrite(c) ==
    /\ calls[c].pc = "write"
    /\ LET sid == calls[c].studentId
           d == calls[c].date
           mine == NewRecord(sid, d, clock)
           rows == InsertUnique(ledger, mine)
       IN IF mine \in rows
          THEN /\ ledger' = rows
               /\ calls' = [calls EXCEPT ![c].pc = "done", ![c].result = mine]
          ELSE \E e \in RecordsFor(ledger, sid, d) :
                 /\ ledger' = (ledger \ {e}) \cup {OnConflict(e, clock)}
                 /\ calls' = [calls EXCEPT ![c].pc = "done",
                                           ![c].result = OnConflict(e, clock)]
    /\ clock' = clock + 1

LedgerNext ==
    \/ \E c \in CallIds, sid \in Students, d \in Dates : LedgerCall(c, sid, d)
    \/ \E c \in CallIds : LedgerLookup(c)
    \/ \E c \in CallIds : LedgerWrite(c)


\* ------------------------------------------------ verification endpoint
\* POST /api/face-verification as the dashboard's session sees it (spec 4.4,
\* 4.5, 6): the oracle judges the frame, a verified outcome is written
\* through recordVerifiedCheckIn for (student, today), then the response
\* travels back.  The request or its response may be lost on the way, and
\* axios.post is called without a timeout option.

\* props.id of the session and the calendar day of its check-ins.
SessionStudent == "S1"
Today == "2024-05-01"

Outcomes == {"verified", "rejected", "error"}

ServerInit ==
    /\ served = [i \in 1..MaxReqs |-> "none"]
    /\ wrote = {}

\* Mutant: the endpoint records attendance whatever the oracle said.
WritesLedger_Always(o) == TRUE

\* "Created when a VerificationOutcome with verified=true is accepted".
WritesLedger(o) == o = "verified"

\* The endpoint handles request r with oracle outcome o.
ServerVerify(r, o) ==
    /\ r \in requests
    /\ served[r.id] = "none"
    /\ served' = [served EXCEPT ![r.id] = o]
    /\ IF WritesLedger(o)
       THEN /\ ledger' = InsertUnique(ledger, NewRecord(SessionStudent, Today, clock))
            /\ clock' = clock + 1
            /\ wrote' = wrote \cup {r.id}
       ELSE UNCHANGED <<ledger, clock, wrote>>
    /\ UNCHANGED <<dashVars, calls, geoVars, auxVars>>

\* The response of request r arrives and the continuation of handleAttendance
\* runs on it.
Deliver(r) ==
    /\ served[r.id] # "none"
    /\ CASE served[r.id] = "verified" -> VerifyResolve(r, TRUE)
         [] served[r.id] = "rejected" -> VerifyResolve(r, FALSE)
         [] OTHER -> VerifyReject(r)
    /\ UNCHANGED <<ledgerVars, geoVars, serverVars, auxVars>>

\* The request or its response is lost: axios.post rejects.
TransportError(r) ==
    /\ VerifyReject(r)
    /\ UNCHANGED <<ledgerVars, geoVars, serverVars, auxVars>>

NextCheckIn ==
    \/ DashLocalNext /\ UNCHANGED <<ledgerVars, geoVars, serverVars, auxVars>>
    \/ \E r \in requests, o \in Outcomes : ServerVerify(r, o)
    \/ \E r \in requests : Deliver(r)
    \/ \E r \in requests : TransportError(r)

\* ---------------------------------------------------------- specifications

vars == <<dashVars, ledgerVars, geoVars, serverVars, auxVars>>

\* The check-in flow, its ledger and its endpoint.
coreVars == <<dashVars, ledgerVars, geoVars, serverVars>>

CoreInit == DashInit /\ LedgerInit /\ GeoInit /\ ServerInit

\* The components outside the check-in flow before any of their steps; of
\* the attendance page one state stands for all where no step is its own.
AuxInit ==
    /\ EvalInit /\ AuthInit /\ BulkInit /\ FaceInit /\ RegInit
    /\ serverStatus = [id \in RecordIds |-> "Absent"]

Init == CoreInit /\ AuxInit

\* No step outside the check-in flow reads the student's dashboard: one
\* state of it stands for all.
CoreQuiet == CoreInit /\ ~position.known /\ ~isVerified

InitAux == CoreQuiet /\ AuxInit

\* The dashboard of one student session.
Next == DashNext /\ UNCHANGED <<ledgerVars, geoVars, serverVars, auxVars>>

Spec == Init /\ [][Next]_vars

\* The ledger under concurrent verified submissions.
NextLedger ==
    LedgerNext /\ UNCHANGED <<dashVars, geoVars, serverVars, auxVars>>

SpecLedger == Init /\ [][NextLedger]_vars

\* The session together with the verification endpoint and its ledger.  No
\* handler or endpoint step reads the position, so one position stands for all.
InitCheckIn == Init /\ ~position.known

SpecCheckIn == InitCheckIn /\ [][NextCheckIn]_vars

\* The same, with the scheduling the event loop guarantees: the continuation
\* of handleAttendance runs once its response has arrived.  Nothing makes the
\* server answer, and no timer rejects a request that is not answered.
SpecCheckInFair ==
    SpecCheckIn /\ WF_vars(\E r \in requests : Deliver(r))

\* The geofence evaluator, called on any coordinates.
NextEval ==
    EvalNext /\ UNCHANGED <<coreVars, authVars, bulkVars, faceVars, regVars>>

SpecEval == InitAux /\ [][NextEval]_vars

\* The login flags and the router.
NextAuth ==
    AuthNext /\ UNCHANGED <<coreVars, evalVars, bulkVars, faceVars, regVars>>

SpecAuth == InitAux /\ [][NextAuth]_vars

\* The admin's attendance page and the server's records.
NextBulk ==
    BulkNext /\ UNCHANGED <<coreVars, evalVars, authVars, faceVars, regVars>>

InitBulk ==
    CoreQuiet /\ EvalInit /\ AuthInit /\ BulkInit /\ FaceInit /\ RegInit

SpecBulk == InitBulk /\ [][NextBulk]_vars

\* One mounted FaceCapture.
NextFace ==
    FaceNext /\ UNCHANGED <<coreVars, evalVars, authVars, bulkVars, regVars>>

SpecFace == InitAux /\ [][NextFace]_vars

\* The camera of the registration form.
NextReg ==
    RegNext /\ UNCHANGED <<coreVars, evalVars, authVars, bulkVars, faceVars>>

SpecReg == InitAux /\ [][NextReg]_vars

\* ----------------------------------------------------------------- claims

\* States of the specification's tagged machine, read off the flags.
Idle == ~isCameraOpen

NonIdle ==
    isCameraOpen \/ pendingGUM # {} \/ capturedImage # Null \/ requests # {}

\* C1: whenever the flow is back in Idle (isCameraOpen = false), no
\* MediaStream acquired by openCamera still has a live track.
C1_IdleReleasesCamera == Idle => liveStreams = {}

\* Calls of recordVerifiedCheckIn that have returned.
DoneCalls == {c \in CallIds : calls[c].pc = "done"}

SameKey(c1, c2) ==
    calls[c1].studentId = calls[c2].studentId /\ calls[c1].date = calls[c2].date

\* C2: recordVerifiedCheckIn is an idempotent upsert: after N >= 1 calls for
\* (studentId, date) exactly one AttendanceRecord exists for the pair, and
\* every call returned that record, unchanged since the first call (the same
\* recordedAt), and none returned an error.
C2_IdempotentUpsert ==
    \A c \in DoneCalls :
        LET rs == RecordsFor(ledger, calls[c].studentId, calls[c].date)
        IN /\ Cardinality(rs) = 1
           /\ calls[c].result \in rs
           /\ ~calls[c].result.error

\* C2 witness: three calls for one (studentId, date) have returned, the later
\* ones having found the record of the first.
C2_Witness ==
    /\ DoneCalls = CallIds
    /\ \A c \in CallIds : SameKey(c, 1)
    /\ \E c \in CallIds : ~calls[c].sawAbsent
    /\ clock > MaxCalls

\* C3: two verified check-ins for the same student and day that raced (both
\* looked up before either wrote) leave exactly one AttendanceRecord for that
\* (studentId, date), and neither caller got an error.
C3_ConcurrentCheckInsOneRecord ==
    \A c1, c2 \in DoneCalls :
        (c1 # c2 /\ SameKey(c1, c2) /\ calls[c1].sawAbsent /\ calls[c2].sawAbsent)
        => /\ Cardinality(RecordsFor(ledger, calls[c1].studentId, calls[c1].date)) = 1
           /\ ~calls[c1].result.error /\ ~calls[c2].result.error

\* C3 witness: two calls for the same key both found no record, and both
\* have returned.
C3_Witness ==
    \E c1, c2 \in DoneCalls :
        /\ c1 # c2 /\ SameKey(c1, c2)
        /\ calls[c1].sawAbsent /\ calls[c2].sawAbsent
        /\ calls[c1].result = calls[c2].result

\* C4: a start (openCamera from the "Take Attendance" button) issued while
\* the flow is not Idle changes no flow state and starts no acquisition.
C4_StartIgnoredWhenNonIdle ==
    [][(NonIdle /\ lastOp'.op = "openCamera")
        => UNCHANGED <<isChecking, isVerified, isCameraOpen, capturedImage,
                       videoMounted, srcObject, pendingGUM, liveStreams,
                       nextStream, requests>>]_vars

\* C5: a captured frame exists only in Captured or Submitting, so never
\* while the dialog is closed (Idle, after a terminal outcome or a dismissal).
C5_FrameOnlyWhileCapturedOrSubmitting == capturedImage # Null => isCameraOpen

\* C6: while a frame is held (Captured) or a verification request is in
\* flight (Submitting), every acquired camera track has been stopped.
C6_NoLiveStreamOutsideCameraOpen ==
    (capturedImage # Null \/ requests # {}) => liveStreams = {}

\* C7: each captured frame is submitted to the verification endpoint at most
\* once: a request is only ever issued with a frame never submitted before.
C7_FrameSubmittedAtMostOnce ==
    [][\A r \in requests' :
          (~\E q \in requests : q.id = r.id) => r.frame \notin submitted]_vars

\* C7 witness: a second frame was captured and submitted after the first
\* request, and the dialog was dismissed in between.
C7_Witness ==
    /\ Cardinality(submitted) = 2
    /\ \E r \in requests : r.frame = capturedImage
    /\ lastOp.op = "handleAttendance"

\* C8: at most one face-verification request is in flight at any time.
C8_AtMostOneRequestInFlight == Cardinality(requests) <= 1

\* C8 witness: a request is still in flight after the dialog was dismissed,
\* reopened and a new frame captured; the submit button shows that new frame.
C8_Witness ==
    /\ isCameraOpen /\ capturedImage # Null /\ isChecking
    /\ \E r \in requests : r.cancelled /\ r.frame # capturedImage

\* C9: the result of a request whose dialog was dismissed while it was in
\* flight is discarded on arrival: its settling changes neither isVerified
\* nor the dialog, the frame or the camera of the flow.
C9_CancelledResultDiscarded ==
    [][\A r \in requests :
          (r.cancelled /\ ~\E q \in requests' : q.id = r.id)
          => UNCHANGED <<isVerified, isCameraOpen, capturedImage,
                         videoMounted, srcObject, liveStreams>>]_vars

\* C10: a settled request reports exactly the outcome of its response:
\* verified = true gives "Attendance Verified" and isVerified, verified =
\* false gives "Attendance Not Verified" (face does not match) and not
\* isVerified, an error gives "Attendance Error"; none is reported as another.
C10_OutcomeMatchesResponse ==
    /\ lastOp.out = "verified"
         => (lastToast = "Attendance Verified" /\ isVerified)
    /\ lastOp.out = "rejected"
         => (lastToast = "Attendance Not Verified" /\ ~isVerified)
    /\ lastOp.out = "error" => lastToast = "Attendance Error"

\* C10 witness: an error response arrived for a student already verified.
C10_Witness ==
    lastOp.out = "error" /\ isVerified /\ lastToast = "Attendance Error"

\* A request of requests that the step settles (its response or error
\* arrived and the continuation of handleAttendance ran).
Settles(r) == ~\E q \in requests' : q.id = r.id

\* A request the step issues.
Issues(r) == r \in requests' /\ ~\E q \in requests : q.id = r.id

\* C13: when getUserMedia rejects, the flow leaves CameraOpen (the capture
\* action is no longer available) and the error is reported as "Camera Error".
C13_CameraErrorLeavesCameraOpen ==
    lastOp.op = "gumReject"
        => (~(isCameraOpen /\ capturedImage = Null) /\ lastToast = "Camera Error")

\* C14: capturePhoto on a preview of zero dimensions (no stream attached)
\* produces no frame: capturedImage stays null.
C14_ZeroDimensionsNoFrame ==
    (lastOp.op = "capturePhoto" /\ lastOp.out = "zeroDims") => capturedImage = Null

\* C15: the flow is always restartable: a start issued in Idle begins a
\* fresh flow, the dialog open on the live preview with no frame held and
\* isChecking false.
C15_StartFromIdleIsFresh ==
    [][(Idle /\ lastOp'.op = "openCamera")
        => (isCameraOpen' /\ capturedImage' = Null /\ ~isChecking')]_vars

\* C16: a request that settles while its dialog was never dismissed leaves
\* the flow in Idle: isChecking false, dialog closed, no frame, and no camera
\* track live.
C16_SettleEndsInIdle ==
    [][\A r \in requests :
          (~r.cancelled /\ Settles(r))
          => (~isChecking' /\ ~isCameraOpen' /\ capturedImage' = Null
              /\ liveStreams' = {})]_vars

C18_OneCaptureSession ==
    Cardinality(pendingGUM) <= 1 /\ Cardinality(liveStreams) <= 1

C20_WithinFenceIffDistanceAtMostRadius ==
    position.known => (isWithinCollegeRadius <=> position.distance <= allowedRadius)

\* C11 (as claimed): the ledger is written only in the handling of an issued
\* request with outcome verified; a submission that ends in Rejected, and a
\* submission that ends in Failed, created no AttendanceRecord.
C11_RecordOnlyAfterVerifiedSubmission ==
    [][/\ ledger' # ledger
            => \E r \in requests :
                 /\ served[r.id] = "none" /\ served'[r.id] = "verified"
                 /\ r.frame \in submitted
       /\ \A r \in requests :
            (Settles(r) /\ lastOp'.out \in {"rejected", "error"})
                => r.id \notin wrote]_vars

\* C11 (amended): the same, where the submission that creates no record is
\* the one whose outcome at the endpoint is verified = false or a service
\* error; a request that fails at the client after the endpoint verified it
\* (response lost) is not covered.
C11_RecordOnlyForVerifiedOutcome ==
    [][/\ ledger' # ledger
            => \E r \in requests :
                 /\ served[r.id] = "none" /\ served'[r.id] = "verified"
                 /\ r.frame \in submitted
       /\ \A r \in requests :
            (Settles(r) /\ served[r.id] \in {"rejected", "error"})
                => r.id \notin wrote
       /\ \A r \in requests :
            (Settles(r) /\ lastOp'.out = "rejected") => r.id \notin wrote]_vars

\* C11 witness: a NO_MATCH submission has ended in Rejected with no record
\* in the ledger.
C11_Witness ==
    /\ lastOp.out = "rejected" /\ lastToast = "Attendance Not Verified"
    /\ \E i \in 1..MaxReqs : served[i] = "rejected"
    /\ ledger = {} /\ wrote = {}

\* C12: whenever a verification request has been issued, the flow eventually
\* leaves Submitting: isChecking becomes false again.
C12_SubmissionTerminates == isChecking ~> ~isChecking

\* C23: closeCamera is idempotent and total: one call stops the stream
\* attached to the video element and clears srcObject; with no element or
\* no stream attached it changes nothing; applied twice it leaves the state
\* it leaves when applied once.
C23_CloseCameraIdempotent ==
    LET attached == videoMounted /\ srcObject # Null
        live1 == CloseCameraLive(videoMounted, srcObject, liveStreams)
        src1 == CloseCameraSrc(videoMounted, srcObject)
    IN  /\ attached => (srcObject \notin live1 /\ src1 = Null)
        /\ ~attached => (live1 = liveStreams /\ src1 = srcObject)
        /\ CloseCameraLive(videoMounted, src1, live1) = live1
        /\ CloseCameraSrc(videoMounted, src1) = src1
        /\ lastOp = [op |-> "gumReject", out |-> "stopped"]
             => (srcObject = Null /\ ~attached)

\* C23 witness: closeCamera, called by openCamera's catch, has stopped the
\* attached stream and cleared the reference of the mounted element.
C23_Witness ==
    /\ lastOp = [op |-> "gumReject", out |-> "stopped"]
    /\ videoMounted /\ srcObject = Null /\ liveStreams = {}

\* The states of the tagged machine as combinations of the flags; Verified,
\* Rejected and Failed are left for Idle in the step that reaches them.
TagIdle ==
    ~isCameraOpen /\ capturedImage = Null /\ ~isChecking /\ liveStreams = {}

TagCameraOpen == isCameraOpen /\ capturedImage = Null /\ ~isChecking

TagCaptured == isCameraOpen /\ capturedImage # Null /\ ~isChecking

TagSubmitting == isCameraOpen /\ capturedImage # Null /\ isChecking

\* C24: every reachable combination of (isCameraOpen, capturedImage,
\* isChecking, camera stream live) is one of the states of the tagged
\* machine: never isChecking with no frame, never a frame or a live stream
\* while the dialog is closed, never an outcome with the camera still open.
C24_FlagsRefineTaggedMachine ==
    /\ TagIdle \/ TagCameraOpen \/ TagCaptured \/ TagSubmitting
    /\ lastOp.op \in {"verifyResolve", "verifyReject"} => ~isCameraOpen

\* C26: once isVerified is true, no later check-in attempt that is rejected
\* or fails sets it back to false.
C26_VerifiedNeverLost == [][isVerified => isVerified']_vars

\* A well-formed coordinate: latitude in [-90, 90], longitude in [-180, 180].
WellFormed(lat, lon) == lat \in -90..90 /\ lon \in -180..180

\* C21: for a latitude outside [-90, 90] or a longitude outside [-180, 180]
\* the evaluator returns a validation error, and no distance.
C21_MalformedInputRejected ==
    (fenceEval # NoEval /\ ~WellFormed(fenceEval.lat, fenceEval.lon))
        => fenceEval.result.kind = "error"

\* C22: the dashboard route renders StudentDashboard only when isLoggedIn is
\* true, and the admin routes render their pages only when isLoggedInAdmin is
\* true.
C22_RoleBasedAccess ==
    /\ RouteElement(path, isLoggedIn) = "StudentDashboard" => isLoggedIn
    /\ RouteElement(path, isLoggedIn) = "AdminPage" => isLoggedInAdmin

\* C28: after handleLogout succeeded and the application loaded again,
\* isLoggedIn is false until a new login or a successful /api/user check,
\* and the dashboard is not rendered.
C28_LogoutEndsSession ==
    loggedOut =>
        (~isLoggedIn /\ RouteElement(path, isLoggedIn) # "StudentDashboard")

\* Steps of a call of handleBulkUpdate: it starts, it finishes.
Starts(b) == batches[b].phase = "idle" /\ batches'[b].phase = "awaiting"

Finishes(b) ==
    batches[b].phase = "awaiting" /\ batches'[b].phase \in {"resolved", "rejected"}

\* One single-record update per id and none for another record, each settled
\* once; the server changes a record only by an update of it that succeeded,
\* and a batch that fails rolls nothing back.
OneUpdatePerIdNoAtomicity ==
    /\ \A b \in BatchIds : Starts(b) =>
          \A id \in RecordIds :
              batches'[b].upd[id] # "none" <=> id \in batches'[b].ids
    /\ \A b \in BatchIds, id \in RecordIds :
          batches'[b].upd[id] # batches[b].upd[id]
              => batches[b].upd[id] \in {"none", "sent"}
    /\ \A id \in RecordIds : serverStatus'[id] # serverStatus[id] =>
          \E b \in BatchIds :
              /\ batches[b].upd[id] = "sent" /\ batches'[b].upd[id] = "ok"
              /\ serverStatus'[id] = batches[b].status
    /\ \A b \in BatchIds :
          (Finishes(b) /\ batches'[b].phase = "rejected")
              => serverStatus' = serverStatus

\* The updates of batch b in flight after the step.
InFlightAfter(b) == {id \in RecordIds : batches'[b].upd[id] = "sent"}

\* C25 (as claimed): bulkUpdateAttendance performs exactly one single-record
\* update per id, sequentially, so that at most one update of a batch is in
\* flight, with no all-or-nothing guarantee.
C25_SequentialSingleUpdates ==
    [][/\ OneUpdatePerIdNoAtomicity
       /\ \A b \in BatchIds : Cardinality(InFlightAfter(b)) <= 1]_vars

\* C25 (amended): bulkUpdateAttendance performs exactly one single-record
\* update per id, all of them issued by the call itself and in flight
\* together, with no all-or-nothing guarantee: updates that succeeded stay
\* applied on the server when another update of the batch fails.
C25_ConcurrentSingleUpdates ==
    [][/\ OneUpdatePerIdNoAtomicity
       /\ \A b \in BatchIds :
            Starts(b) => InFlightAfter(b) = batches'[b].ids]_vars

\* C25 witness: a batch of two updates was rejected, one update failed and
\* the other is applied on the server.
C25_Witness ==
    \E b \in BatchIds, i \in RecordIds, j \in RecordIds :
        /\ batches[b].phase = "rejected"
        /\ batches[b].upd[i] = "ok" /\ batches[b].upd[j] = "failed"
        /\ serverStatus[i] = batches[b].status
        /\ serverStatus[i] # attendanceData[i]

\* C27: when handleBulkUpdate finishes, with every update succeeded or with
\* some failed, the status held locally for each record of the batch equals
\* the status the server stores for it.
C27_LocalMatchesServerAfterBulk ==
    [][\A b \in BatchIds : Finishes(b) =>
          \A id \in batches[b].ids : attendanceData'[id] = serverStatus'[id]]_vars

\* C29: after its first successful getUserMedia a mounted FaceCapture holds
\* exactly one live stream and has no further acquisition under way, and
\* once it is unmounted and nothing is pending, every stream it acquired has
\* been stopped.
C29_FaceCaptureBoundedAcquisition ==
    /\ (faceMounted /\ mediaStream # Null) => facePending = {}
    /\ (faceMounted /\ mediaStream # Null
            /\ faceLastOp \notin {"capture", "cancel"})
          => faceLive = {mediaStream}
    /\ (~faceMounted /\ facePending = {}) => faceLive = {}

\* C30: whenever the preview is hidden (showCamera = false), no stream
\* acquired by startCamera is live.
C30_HiddenPreviewNoLiveStream == ~showCamera => regLive = {}

=============================================================================
